---- MODULE Spec2Model ----
(***************************************************************************)
(* Model of the excel-interview-agent repository.                          *)
(*                                                                         *)
(* Four components are modelled, each with its own specification:          *)
(*   EngineSpec   the in-process InterviewEngine (phase state machine,     *)
(*                Evaluator, Reporter and the on_submit UI handler);       *)
(*                SharedEngineSpec is the same engine with several         *)
(*                browser sessions of the UI sending messages;             *)
(*   ServiceSpec  the backend SessionService over the interview_sessions   *)
(*                and session_responses tables, as called by               *)
(*                SessionController behind the validation middleware;      *)
(*   ControllerSpec  the orchestration core the design documents describe  *)
(*                (PhaseController with skip and forceTransition,          *)
(*                ResponseEvaluator with validation, one retry and the     *)
(*                degraded path, DifficultyAdapter), of which the sources  *)
(*                hold only the skeleton that EngineSpec models;           *)
(*   InterviewSpec  the paginated listing of InterviewService.             *)
(***************************************************************************)
EXTENDS Integers, Sequences, FiniteSets, TLC

VARIABLES
    \* ---- InterviewEngine.state (InterviewState) ----
    phase,              \* state.phase
    q_index,            \* state.q_index
    questions,          \* state.questions
    responses,          \* state.responses (list of ResponseRecord)
    end_time,           \* state.end_time
    feedback_report,    \* state.feedback_report
    qa_calls,           \* number of process_response calls made in phase "qa"
    phase_seq,          \* the values state.phase has taken, in order
    chat_history,       \* per UI client, the roles of its chat messages
    asked,              \* positions of the questions ask_next has returned
    \* ---- backend database and HTTP outcome ----
    interview_sessions, \* table interview_sessions, keyed by id
    session_responses,  \* table session_responses, in created_at order
    reply,              \* outcome of the last HTTP request
    \* ---- interview orchestration core ----
    session_state,      \* the SessionState owned by the PhaseController
    evaluation,         \* the latest evaluation task of the ResponseEvaluator
    \* ---- backend: interviews ----
    interviews,         \* table interviews, in the order a listing asks for
    page_reply          \* the last response of getInterviews

engine_vars == <<phase, q_index, questions, responses, end_time,
                 feedback_report, qa_calls, phase_seq, chat_history, asked>>
service_vars == <<interview_sessions, session_responses, reply>>
controller_vars == <<session_state, evaluation>>
interview_vars == <<interviews, page_reply>>
vars == <<phase, q_index, questions, responses, end_time, feedback_report,
          qa_calls, phase_seq, chat_history, asked, interview_sessions,
          session_responses, reply, session_state, evaluation, interviews,
          page_reply>>

\* An optional value (None, NULL) is {} when absent and a singleton {v} when
\* present.
Null == {}
Some(v) == {v}
Val(x) == CHOOSE v \in x : TRUE

\* ------------------------------------------------------------------------
\* Bounds
\* ------------------------------------------------------------------------
MaxQuestions == 2
MaxResponses == 2
MaxTime == 1
MaxChat == 3
MaxAdaptive == 3
MaxInterviews == 4
MaxPage == 3
MaxLimit == 3

\* ------------------------------------------------------------------------
\* InterviewEngine
\* ------------------------------------------------------------------------

\* Candidate answers: a SUM formula and an AVERAGE formula.
AnswerTexts == {"=SUM(A1:A10)", "=AVERAGE(A1:A10)"}

\* The questions of make_questions(), of which the engine is given a prefix.
QuestionPool == <<"q1", "q2", "q3">>

make_questions(n) == SubSeq(QuestionPool, 1, n)

\* mock_llm_evaluate: the scores the mock LLM can return.  correctness is
\* random.randint(3,5); design and communication are random.randint(2,5), of
\* which the model draws the two end points.
MinCorrectness == 3
MinOtherAxis == 2
MaxAxis == 5

mock_llm_evaluate ==
    { [correctness |-> c, design |-> d, communication |-> m] :
        c \in MinCorrectness..MaxAxis,
        d \in {MinOtherAxis, MaxAxis},
        m \in {MinOtherAxis, MaxAxis} }

\* Evaluator.evaluate: "overall" is 0.4*correctness + 0.3*design +
\* 0.3*communication; the model keeps ten times that value to stay integral.
overall10(scores) ==
    4 * scores.correctness + 3 * scores.design + 3 * scores.communication

Evaluator_evaluate(r) ==
    [correctness |-> r.correctness, design |-> r.design,
     communication |-> r.communication, overall10 |-> overall10(r)]

RECURSIVE SumOverall10(_)
SumOverall10(rs) ==
    IF rs = <<>> THEN 0 ELSE Head(rs).scores.overall10 + SumOverall10(Tail(rs))

\* Reporter.generate_report: avg = total / len(responses), kept as the pair
\* (total10, count); strengths compares avg with 6.
generate_report(rs) ==
    IF rs = <<>>
    THEN [message |-> "No responses"]
    ELSE [total10 |-> SumOverall10(rs), count |-> Len(rs),
          strengths |-> IF SumOverall10(rs) > 60 * Len(rs)
                        THEN "Good communication." ELSE "Needs more depth."]

\* InterviewEngine.ask_next as a function of (phase, q_index): the new phase.
ask_next_phase(ph, qi, qs) ==
    IF ph = "intro" THEN "qa"
    ELSE IF ph = "qa" THEN (IF qi < Len(qs) THEN "qa" ELSE "reflection")
    ELSE IF ph = "reflection" THEN "closing"
    ELSE ph

\* The browser sessions of the Gradio UI; each has its own Chatbot component,
\* whose value on_submit receives and returns.
Clients == {"c1", "c2"}

\* InterviewEngine.ask_next as a function of (phase, q_index): the position
\* of the question whose text it returns, if it returns one.
ask_next_question(ph, qi, qs) ==
    IF ph = "qa" /\ qi < Len(qs) THEN {qi + 1} ELSE {}

\* An assignment of ph to state.phase, as seen by an observer of the phase.
Observe(seq, ph) == IF seq[Len(seq)] = ph THEN seq ELSE Append(seq, ph)

EngineInit ==
    /\ phase = "intro"
    /\ q_index = 0
    /\ \E n \in 0..MaxQuestions : questions = make_questions(n)
    /\ responses = <<>>
    /\ end_time = Null
    /\ feedback_report = Null
    /\ qa_calls = 0
    /\ phase_seq = <<"intro">>
    /\ chat_history = [c \in Clients |-> <<>>]
    /\ asked = {}

\* InterviewEngine.ask_next
AskNext ==
    /\ phase' = ask_next_phase(phase, q_index, questions)
    /\ phase_seq' = Observe(phase_seq, phase')
    /\ asked' = asked \cup ask_next_question(phase, q_index, questions)
    /\ UNCHANGED <<q_index, questions, responses, end_time, feedback_report,
                   qa_calls, chat_history>>

\* process_response with the append of the record left out.
process_response_no_record(user_text, r) ==
    IF phase = "qa" /\ q_index < Len(questions)
    THEN [phase |-> ask_next_phase("qa", q_index + 1, questions),
          q_index |-> q_index + 1,
          responses |-> responses,
          end_time |-> end_time,
          feedback_report |-> feedback_report]
    ELSE IF phase = "reflection"
    THEN [phase |-> "closing",
          q_index |-> q_index,
          responses |-> responses,
          end_time |-> Some("utcnow"),
          feedback_report |-> Some(generate_report(responses))]
    ELSE [phase |-> ask_next_phase(phase, q_index, questions),
          q_index |-> q_index,
          responses |-> responses,
          end_time |-> end_time,
          feedback_report |-> feedback_report]

\* process_response with the q_index increment left out.
process_response_no_increment(user_text, r) ==
    IF phase = "qa" /\ q_index < Len(questions)
    THEN [phase |-> ask_next_phase("qa", q_index, questions),
          q_index |-> q_index,
          responses |-> Append(responses,
                          [question_id |-> questions[q_index + 1],
                           answer_text |-> user_text,
                           scores |-> Evaluator_evaluate(r),
                           deterministic_results |-> <<>>]),
          end_time |-> end_time,
          feedback_report |-> feedback_report]
    ELSE IF phase = "reflection"
    THEN [phase |-> "closing",
          q_index |-> q_index,
          responses |-> responses,
          end_time |-> Some("utcnow"),
          feedback_report |-> Some(generate_report(responses))]
    ELSE [phase |-> ask_next_phase(phase, q_index, questions),
          q_index |-> q_index,
          responses |-> responses,
          end_time |-> end_time,
          feedback_report |-> feedback_report]

\* The effect of process_response(user_text) with LLM result r on the engine
\* state, given as the record of the new field values.
process_response(user_text, r) ==
    IF phase = "qa" /\ q_index < Len(questions)
    THEN [phase |-> ask_next_phase("qa", q_index + 1, questions),
          q_index |-> q_index + 1,
          responses |-> Append(responses,
                          [question_id |-> questions[q_index + 1],
                           answer_text |-> user_text,
                           scores |-> Evaluator_evaluate(r),
                           deterministic_results |-> <<>>]),
          end_time |-> end_time,
          feedback_report |-> feedback_report]
    ELSE IF phase = "reflection"
    THEN [phase |-> "closing",
          q_index |-> q_index,
          responses |-> responses,
          end_time |-> Some("utcnow"),
          feedback_report |-> Some(generate_report(responses))]
    ELSE [phase |-> ask_next_phase(phase, q_index, questions),
          q_index |-> q_index,
          responses |-> responses,
          end_time |-> end_time,
          feedback_report |-> feedback_report]

\* The question process_response returns through its call of ask_next.
process_response_question ==
    IF phase = "qa" /\ q_index < Len(questions)
    THEN ask_next_question("qa", q_index + 1, questions)
    ELSE IF phase = "reflection" THEN {}
    ELSE ask_next_question(phase, q_index, questions)

\* InterviewEngine.process_response
ProcessResponse ==
    \E user_text \in AnswerTexts, r \in mock_llm_evaluate :
        LET s == process_response(user_text, r) IN
        /\ phase' = s.phase
        /\ phase_seq' = Observe(phase_seq, s.phase)
        /\ q_index' = s.q_index
        /\ responses' = s.responses
        /\ end_time' = s.end_time
        /\ feedback_report' = s.feedback_report
        /\ qa_calls' = IF phase = "qa" THEN qa_calls + 1 ELSE qa_calls
        /\ asked' = asked \cup process_response_question
        /\ UNCHANGED <<questions, chat_history>>

\* on_submit, called for client c: the user message is appended to the
\* client's chat, then process_response followed by ask_next run on the
\* module-level engine, and the reply (and the report, once there is one) is
\* appended to the chat.
OnSubmit(c) ==
    \E user_text \in AnswerTexts, r \in mock_llm_evaluate :
        LET s == process_response(user_text, r) IN
        /\ phase' = ask_next_phase(s.phase, s.q_index, questions)
        /\ phase_seq' = Observe(Observe(phase_seq, s.phase), phase')
        /\ q_index' = s.q_index
        /\ responses' = s.responses
        /\ end_time' = s.end_time
        /\ feedback_report' = s.feedback_report
        /\ qa_calls' = IF phase = "qa" THEN qa_calls + 1 ELSE qa_calls
        /\ chat_history' =
               [chat_history EXCEPT ![c] =
                    @ \o <<"user", "assistant">>
                      \o (IF s.feedback_report # Null
                          THEN <<"assistant">> ELSE <<>>)]
        /\ Len(chat_history'[c]) <= MaxChat
        /\ asked' = asked \cup process_response_question
                          \cup ask_next_question(s.phase, s.q_index, questions)
        /\ UNCHANGED questions

\* The engine behind the UI with one browser session open.
EngineNext ==
    \/ AskNext /\ UNCHANGED <<service_vars, controller_vars, interview_vars>>
    \/ ProcessResponse /\ UNCHANGED <<service_vars, controller_vars, interview_vars>>
    \/ OnSubmit("c1") /\ UNCHANGED <<service_vars, controller_vars, interview_vars>>

\* The engine behind the UI with every browser session sending messages.
SharedEngineNext ==
    \/ AskNext /\ UNCHANGED <<service_vars, controller_vars, interview_vars>>
    \/ ProcessResponse /\ UNCHANGED <<service_vars, controller_vars, interview_vars>>
    \/ \E c \in Clients :
           OnSubmit(c) /\ UNCHANGED <<service_vars, controller_vars, interview_vars>>

\* ------------------------------------------------------------------------
\* Backend: SessionService behind SessionController and the session routes
\* ------------------------------------------------------------------------

\* The ids createSession gives to the sessions it creates, in order, and the
\* session ids a client can send: those and the id of no session.
SessionIdSeq == <<"s1">>
SessionIds == {SessionIdSeq[i] : i \in 1..Len(SessionIdSeq)} \cup {"s0"}

\* Rows of interview_questions, and the question ids a client can send.
InterviewQuestionIds == {"q1", "q2"}
RequestQuestionIds == InterviewQuestionIds \cup {"q0"}

\* SessionStatus
PENDING == "pending"
IN_PROGRESS == "in_progress"
COMPLETED == "completed"
ABANDONED == "abandoned"

\* evaluateResponseSchema: score is a number between 0 and 100.
MinScore == 0
MaxScore == 100

\* Scores a client can send: both ends of the valid range and one beyond it.
RequestScores == {MinScore, MaxScore, MaxScore + 1}

\* The latest timestamp stored so far (0 when none is).
LastTime ==
    LET stamps == UNION { interview_sessions[s].started_at
                            \cup interview_sessions[s].completed_at :
                          s \in DOMAIN interview_sessions } IN
    IF stamps = {} THEN 0 ELSE CHOOSE t \in stamps : \A u \in stamps : u <= t

\* new Date(): the clock does not run backwards; it is capped at MaxTime.
Now == { t \in LastTime..(LastTime + 1) : t <= MaxTime }

\* The outcome of a request: the handler that served it, the HTTP status sent
\* and the code of the database error the service logged, if any.
Reply(op, status, cause) == [op |-> op, status |-> status, cause |-> cause]

ServiceInit ==
    /\ interview_sessions = <<>>
    /\ session_responses = <<>>
    /\ reply = Reply("none", 0, "none")

\* SessionController.createSession / SessionService.createSession
CreateSession ==
    /\ Cardinality(DOMAIN interview_sessions) < Len(SessionIdSeq)
    /\ LET id == SessionIdSeq[Cardinality(DOMAIN interview_sessions) + 1] IN
       interview_sessions' =
           [s \in DOMAIN interview_sessions \cup {id} |->
               IF s = id
               THEN [status |-> PENDING, started_at |-> Null,
                     completed_at |-> Null, total_score |-> Null]
               ELSE interview_sessions[s]]
    /\ reply' = Reply("createSession", 201, "none")
    /\ UNCHANGED session_responses

\* sessionRepository.update(sessionId, fields): no row, no effect.
UpdateSession(id, row) ==
    IF id \in DOMAIN interview_sessions
    THEN [interview_sessions EXCEPT ![id] = row]
    ELSE interview_sessions

\* A handler that sends the result of findOne without testing it for null.
FoundStatus_always_ok(found) == 200

\* The HTTP status of a handler that answers 404 when findOne returns null.
FoundStatus(found) == IF found THEN 200 ELSE 404

\* SessionController.startSession / SessionService.startSession
StartSession(id) ==
    /\ \E now \in Now :
        interview_sessions' =
            IF id \in DOMAIN interview_sessions
            THEN UpdateSession(id, [interview_sessions[id] EXCEPT
                                      !.status = IN_PROGRESS,
                                      !.started_at = Some(now)])
            ELSE interview_sessions
    /\ reply' = Reply("startSession",
                      FoundStatus(id \in DOMAIN interview_sessions), "none")
    /\ UNCHANGED session_responses

\* InsertError without the unique constraint on (session_id, question_id).
InsertError_no_unique(rows, sid, qid) ==
    IF sid \notin DOMAIN interview_sessions \/ qid \notin InterviewQuestionIds
    THEN "23503"
    ELSE "none"

\* The PostgreSQL error an INSERT into session_responses raises, if any:
\* 23503 for a missing session or question (foreign keys), 23505 for a second
\* row with the same (session_id, question_id) (unique constraint).
InsertError(rows, sid, qid) ==
    IF sid \notin DOMAIN interview_sessions \/ qid \notin InterviewQuestionIds
    THEN "23503"
    ELSE IF \E i \in 1..Len(rows) :
                rows[i].session_id = sid /\ rows[i].question_id = qid
    THEN "23505"
    ELSE "none"

\* handleDatabaseError: the status for a PostgreSQL error code.
handleDatabaseError(code) ==
    IF code = "23505" THEN 409
    ELSE IF code = "23503" THEN 404
    ELSE IF code = "23502" THEN 400
    ELSE 500

\* An error as errorHandler receives it: an AppError carries its status
\* code, a database error carries its PostgreSQL code.
AppError(statusCode) ==
    [isAppError |-> TRUE, statusCode |-> statusCode, code |-> "none"]

\* errorHandler: the status sent for an error.  An AppError keeps its own
\* status; any other error with a code is mapped by handleDatabaseError.
errorHandler(error) ==
    IF error.isAppError THEN error.statusCode
    ELSE IF error.code # "none" THEN handleDatabaseError(error.code)
    ELSE 500

\* SessionController.submitResponse / SessionService.submitResponse.  The
\* service issues one INSERT; overlapping submissions are serialised by the
\* database, so the handler takes effect in one step.  The service catches
\* whatever the INSERT raises and throws AppError("Failed to submit
\* response", 500) in its place.
SubmitResponse(sid, qid, answer) ==
    LET err == InsertError(session_responses, sid, qid) IN
    /\ err = "none" => Len(session_responses) < MaxResponses
    /\ session_responses' =
           IF err = "none"
           THEN Append(session_responses,
                       [session_id |-> sid, question_id |-> qid,
                        answer |-> answer, score |-> Null,
                        is_correct |-> FALSE])
           ELSE session_responses
    /\ reply' = IF err = "none"
                THEN Reply("submitResponse", 201, "none")
                ELSE Reply("submitResponse", errorHandler(AppError(500)), err)
    /\ UNCHANGED interview_sessions

\* validate(evaluateResponseSchema)
ValidScore(score) == MinScore <= score /\ score <= MaxScore

\* UpdateResponse writing the whole entity back, the answer included.
UpdateResponse_overwrites_answer(rows, rid, score, isCorrect) ==
    IF rid \in 1..Len(rows)
    THEN [rows EXCEPT ![rid] = [@ EXCEPT !.score = Some(score),
                                         !.is_correct = isCorrect,
                                         !.answer = ""]]
    ELSE rows

\* responseRepository.update(responseId, {score, is_correct})
UpdateResponse(rows, rid, score, isCorrect) ==
    IF rid \in 1..Len(rows)
    THEN [rows EXCEPT ![rid] = [@ EXCEPT !.score = Some(score),
                                         !.is_correct = isCorrect]]
    ELSE rows

\* SessionController.evaluateResponse / SessionService.evaluateResponse,
\* behind validate(evaluateResponseSchema).
EvaluateResponse(rid, score, isCorrect) ==
    /\ session_responses' =
           IF ValidScore(score)
           THEN UpdateResponse(session_responses, rid, score, isCorrect)
           ELSE session_responses
    /\ reply' = IF ~ValidScore(score)
                THEN Reply("evaluateResponse", 400, "none")
                ELSE Reply("evaluateResponse",
                           FoundStatus(rid \in 1..Len(session_responses)),
                           "none")
    /\ UNCHANGED interview_sessions

\* completeSession: the sum of the scores of the session's scored responses.
RECURSIVE TotalScore(_, _)
TotalScore(rows, sid) ==
    IF rows = <<>> THEN 0
    ELSE (IF Head(rows).session_id = sid /\ Head(rows).score # Null
          THEN Val(Head(rows).score) ELSE 0) + TotalScore(Tail(rows), sid)

\* SessionController.completeSession / SessionService.completeSession
CompleteSession(id) ==
    /\ \E now \in Now :
        interview_sessions' =
            IF id \in DOMAIN interview_sessions
            THEN UpdateSession(id, [interview_sessions[id] EXCEPT
                     !.status = COMPLETED,
                     !.completed_at = Some(now),
                     !.total_score = Some(TotalScore(session_responses, id))])
            ELSE interview_sessions
    /\ reply' = Reply("completeSession",
                      FoundStatus(id \in DOMAIN interview_sessions), "none")
    /\ UNCHANGED session_responses

\* SessionController.abandonSession / SessionService.abandonSession
AbandonSession(id) ==
    /\ interview_sessions' =
           IF id \in DOMAIN interview_sessions
           THEN UpdateSession(id, [interview_sessions[id] EXCEPT
                                     !.status = ABANDONED])
           ELSE interview_sessions
    /\ reply' = Reply("abandonSession",
                      FoundStatus(id \in DOMAIN interview_sessions), "none")
    /\ UNCHANGED session_responses

ServiceNext ==
    \/ CreateSession /\ UNCHANGED <<engine_vars, controller_vars, interview_vars>>
    \/ \E id \in SessionIds : StartSession(id) /\ UNCHANGED <<engine_vars, controller_vars, interview_vars>>
    \/ \E sid \in SessionIds, qid \in RequestQuestionIds, a \in AnswerTexts :
           SubmitResponse(sid, qid, a) /\ UNCHANGED <<engine_vars, controller_vars, interview_vars>>
    \/ \E rid \in 1..MaxResponses, score \in RequestScores,
          isCorrect \in BOOLEAN :
           EvaluateResponse(rid, score, isCorrect) /\ UNCHANGED <<engine_vars, controller_vars, interview_vars>>
    \/ \E id \in SessionIds : CompleteSession(id) /\ UNCHANGED <<engine_vars, controller_vars, interview_vars>>
    \/ \E id \in SessionIds : AbandonSession(id) /\ UNCHANGED <<engine_vars, controller_vars, interview_vars>>

\* The deterministic rule-checker of the reconciliation policy: the first
\* question expects the SUM function; an answer using it is verified with
\* correctness 5, any other formula is verified with correctness 1; the
\* other questions have no expected-answer descriptor.
RuleChecker(question_id, answer_text) ==
    IF question_id = "q1"
    THEN [verified |-> TRUE,
          correctness |-> IF answer_text = "=SUM(A1:A10)" THEN 5 ELSE 1]
    ELSE [verified |-> FALSE, correctness |-> 0]

\* ------------------------------------------------------------------------
\* Interview orchestration core: PhaseController, ResponseEvaluator and
\* DifficultyAdapter
\* ------------------------------------------------------------------------

\* The canonical phase order; CLOSING is terminal.
PhaseSequence == <<"INTRO", "ADAPTIVE_QNA", "SCENARIO", "REFLECTION", "CLOSING">>

PhaseIndex(ph) == CHOOSE i \in 1..Len(PhaseSequence) : PhaseSequence[i] = ph

\* DifficultyLevel, lowest first; a tier is kept as its position in it.
Tiers == <<"beginner", "intermediate", "advanced", "expert">>

DefaultTier == CHOOSE i \in 1..Len(Tiers) : Tiers[i] = "intermediate"

\* QuestionBank: the questions of each phase.  ADAPTIVE_QNA asks the first
\* MaxAdaptive questions of its catalogue, the first of which is the formula
\* question that expects SUM; the other phases ask one question each.
AdaptiveCatalogue == <<"q1", "q2", "q3", "q4", "q5">>

questionsFor(ph) ==
    IF ph = "INTRO" THEN <<"intro">>
    ELSE IF ph = "ADAPTIVE_QNA" THEN SubSeq(AdaptiveCatalogue, 1, MaxAdaptive)
    ELSE IF ph = "SCENARIO" THEN <<"scenario">>
    ELSE IF ph = "REFLECTION" THEN <<"reflection">>
    ELSE <<>>

\* Rubric axes and the range of an axis value.
Axes == {"correctness", "explanation"}
AxisMin == 0
AxisMax == 5

\* The narrative scorer is called at most MaxAttempts times for one answer:
\* one call and one retry.
MaxAttempts == 2

\* The score a degraded evaluation gives to an axis no rule-check covers.
NeutralScore == 3

\* skip(): the retry counter may reach SkipThreshold before the controller
\* force-advances.
SkipThreshold == 2

\* DifficultyAdapter: window length and the two thresholds on the average.
WindowSize == 2
EscalateAt == 4
DeescalateAt == 2

\* What one call of the external narrative scorer can yield: a timeout, text
\* that does not parse, or parsed JSON whose scores are any mapping from
\* axis names to numbers (here: two valid results, one with a value above
\* the range, one with a value below it, one with an axis missing).
NarrativeOutputs ==
    { [kind |-> "timeout", scores |-> <<>>],
      [kind |-> "malformed", scores |-> <<>>] }
    \cup { [kind |-> "json",
            scores |-> [correctness |-> c, explanation |-> 4]] :
           c \in {1, 5} }
    \cup { [kind |-> "json",
            scores |-> [correctness |-> AxisMax + 1, explanation |-> 4]],
           [kind |-> "json",
            scores |-> [correctness |-> 3, explanation |-> AxisMin - 1]],
           [kind |-> "json", scores |-> [correctness |-> 5]] }

\* Schema validation of a narrative output without the range check.
ValidNarrative_no_range_check(out) ==
    /\ out.kind = "json"
    /\ DOMAIN out.scores = Axes

\* Schema validation of a narrative output: parsed, every axis present, every
\* value within the axis range.
ValidNarrative(out) ==
    /\ out.kind = "json"
    /\ DOMAIN out.scores = Axes
    /\ \A a \in Axes : out.scores[a] \in AxisMin..AxisMax

\* The outcome of one call as the evaluator classifies it.
Outcome(out) ==
    IF ValidNarrative(out) THEN "valid"
    ELSE IF out.kind = "json" THEN "invalid"
    ELSE out.kind

\* Reconciliation when the narrative result is valid: a verified rule-check
\* overrides the correctness axis, the narrative scorer supplies the rest.
ReconciledResult(rc, scores) ==
    [scores |-> [a \in Axes |->
                    IF a = "correctness" /\ rc.verified
                    THEN rc.correctness ELSE scores[a]],
     provenance |-> "rule+narrative"]

\* A degraded result that makes up a full mark for the uncovered axes.
DegradedResult_fabricates(rc) ==
    [scores |-> [a \in Axes |->
                    IF a = "correctness" /\ rc.verified
                    THEN rc.correctness ELSE AxisMax],
     provenance |-> "degraded"]

\* The degraded result: the rule-checker's correctness when it is verified,
\* the neutral default for every other axis, nothing from the scorer.
DegradedResult(rc) ==
    [scores |-> [a \in Axes |->
                    IF a = "correctness" /\ rc.verified
                    THEN rc.correctness ELSE NeutralScore],
     provenance |-> "degraded"]

\* A force-advance record that carries the neutral default.
SkippedResult_neutral ==
    [scores |-> [a \in Axes |-> NeutralScore], provenance |-> "rule-only"]

\* The record skip() stores when it force-advances: minimal scores.
SkippedResult ==
    [scores |-> [a \in Axes |-> AxisMin], provenance |-> "rule-only"]

RECURSIVE SumSeq(_)
SumSeq(s) == IF s = <<>> THEN 0 ELSE Head(s) + SumSeq(Tail(s))

\* The correctness scores of the scored ADAPTIVE_QNA answers, oldest first.
RECURSIVE ScoreHistory(_)
ScoreHistory(records) ==
    IF records = <<>> THEN <<>>
    ELSE LET r == Head(records) IN
         (IF r.phase = "ADAPTIVE_QNA" /\ ~r.skipped
          THEN <<r.scores["correctness"]>> ELSE <<>>)
         \o ScoreHistory(Tail(records))

\* The last WindowSize entries of a score history (all of it when shorter).
Window(history) ==
    IF Len(history) <= WindowSize THEN history
    ELSE SubSeq(history, Len(history) - WindowSize + 1, Len(history))

\* DifficultyAdapter without the cap at Expert and the floor at Beginner.
NextTier_unclamped(tier, history) ==
    LET w == Window(history) IN
    IF w = <<>> THEN tier
    ELSE IF SumSeq(w) >= EscalateAt * Len(w) THEN tier + 1
    ELSE IF SumSeq(w) <= DeescalateAt * Len(w) THEN tier - 1
    ELSE tier

\* DifficultyAdapter: the next tier from the current one and the score
\* history; the average of the window is compared as sum against
\* threshold * length.
NextTier(tier, history) ==
    LET w == Window(history) IN
    IF w = <<>> THEN tier
    ELSE IF SumSeq(w) >= EscalateAt * Len(w)
         THEN (IF tier < Len(Tiers) THEN tier + 1 ELSE tier)
    ELSE IF SumSeq(w) <= DeescalateAt * Len(w)
         THEN (IF tier > 1 THEN tier - 1 ELSE tier)
    ELSE tier

\* The session has a question waiting for an answer.
HasPendingQuestion(st) ==
    /\ st.phase # "CLOSING"
    /\ st.q_index < Len(questionsFor(st.phase))

PendingQuestion(st) == questionsFor(st.phase)[st.q_index + 1]

\* A narrative call is outstanding.
Evaluating == evaluation # Null /\ ~Val(evaluation).done

\* The session after the pending question got its record: the index moves
\* on, and past the last question of the phase the next phase begins.
Advance(st, record, tier) ==
    LET exhausted == st.q_index + 1 >= Len(questionsFor(st.phase)) IN
    [phase |-> IF exhausted
               THEN PhaseSequence[PhaseIndex(st.phase) + 1] ELSE st.phase,
     q_index |-> IF exhausted THEN 0 ELSE st.q_index + 1,
     tier |-> tier,
     records |-> Append(st.records, record),
     retries |-> 0]

ControllerInit ==
    /\ session_state = Null
    /\ evaluation = Null

\* PhaseController.start(): creates the SessionState.  A second call fails
\* with AlreadyStarted and changes nothing.
Controller_start ==
    /\ session_state = Null
    /\ session_state' = Some([phase |-> "INTRO", q_index |-> 0,
                              tier |-> DefaultTier, records |-> <<>>,
                              retries |-> 0])
    /\ UNCHANGED evaluation

\* PhaseController.submitResponse(text), up to the first call of the
\* narrative scorer, on which it waits.
Controller_submitResponse(text) ==
    /\ session_state # Null
    /\ HasPendingQuestion(Val(session_state))
    /\ ~Evaluating
    /\ evaluation' = Some([question_id |-> PendingQuestion(Val(session_state)),
                           answer_text |-> text,
                           outcomes |-> <<>>,
                           done |-> FALSE])
    /\ UNCHANGED session_state

\* The evaluator never calls the scorer again.
MayRetry_never(outcomes) == FALSE

\* The evaluator may call the scorer three times.
MayRetry_twice(outcomes) == Len(outcomes) <= MaxAttempts

\* The evaluator calls the scorer again only while fewer than MaxAttempts
\* calls have been made.
MayRetry(outcomes) == Len(outcomes) < MaxAttempts

\* The rest of submitResponse, resumed when a call of the narrative scorer
\* returns or times out: a valid result is reconciled and recorded; a failed
\* call is retried once; after the second failure the degraded result is
\* recorded.  Recording advances the session and, in ADAPTIVE_QNA, retunes
\* the difficulty tier.
NarrativeScorerReturns(out) ==
    /\ Evaluating
    /\ LET ev == Val(evaluation)
           st == Val(session_state)
           outs == Append(ev.outcomes, Outcome(out))
           rc == RuleChecker(ev.question_id, ev.answer_text)
           retry == ~ValidNarrative(out) /\ MayRetry(outs)
           result == IF ValidNarrative(out)
                     THEN ReconciledResult(rc, out.scores)
                     ELSE DegradedResult(rc)
           record == [question_id |-> ev.question_id,
                      phase |-> st.phase,
                      scores |-> result.scores,
                      provenance |-> result.provenance,
                      skipped |-> FALSE]
           tier == IF st.phase = "ADAPTIVE_QNA"
                   THEN NextTier(st.tier,
                                 ScoreHistory(Append(st.records, record)))
                   ELSE st.tier
       IN
       /\ evaluation' = Some([ev EXCEPT !.outcomes = outs, !.done = ~retry])
       /\ session_state' = IF retry THEN session_state
                           ELSE Some(Advance(st, record, tier))

\* The counter exceeds the threshold one skip late.
ExceedsThreshold_late(n) == n > SkipThreshold + 1

ExceedsThreshold(n) == n > SkipThreshold

\* PhaseController.skip(): the retry counter of the pending question goes up
\* by one; once it exceeds the threshold the controller records a skipped
\* response and advances, otherwise the question is asked again.  Only the
\* counter of the pending question is kept.
Controller_skip ==
    /\ session_state # Null
    /\ HasPendingQuestion(Val(session_state))
    /\ ~Evaluating
    /\ LET st == Val(session_state)
           record == [question_id |-> PendingQuestion(st),
                      phase |-> st.phase,
                      scores |-> SkippedResult.scores,
                      provenance |-> SkippedResult.provenance,
                      skipped |-> TRUE]
       IN
       session_state' =
           IF ExceedsThreshold(st.retries + 1)
           THEN Some(Advance(st, record, st.tier))
           ELSE Some([st EXCEPT !.retries = @ + 1])
    /\ UNCHANGED evaluation

Phases == {PhaseSequence[i] : i \in 1..Len(PhaseSequence)}

\* forceTransition that accepts any later phase.
forceTransition_any_later(st, target) ==
    IF PhaseIndex(target) > PhaseIndex(st.phase)
    THEN [session |-> [st EXCEPT !.phase = target, !.q_index = 0,
                                 !.retries = 0],
          error |-> "none"]
    ELSE [session |-> st, error |-> "InvalidTransition"]

\* PhaseController.forceTransition(phase): the session it leaves and the
\* error it fails with.  Only the phase that directly follows the current
\* one is accepted; the session then stands at its first question.
forceTransition(st, target) ==
    IF PhaseIndex(target) = PhaseIndex(st.phase) + 1
    THEN [session |-> [st EXCEPT !.phase = target, !.q_index = 0,
                                 !.retries = 0],
          error |-> "none"]
    ELSE [session |-> st, error |-> "InvalidTransition"]

Controller_forceTransition(target) ==
    /\ session_state # Null
    /\ ~Evaluating
    /\ session_state' = Some(forceTransition(Val(session_state), target).session)
    /\ UNCHANGED evaluation

ControllerNext ==
    \/ \E target \in Phases :
           Controller_forceTransition(target)
               /\ UNCHANGED <<engine_vars, service_vars, interview_vars>>
    \/ Controller_start /\ UNCHANGED <<engine_vars, service_vars, interview_vars>>
    \/ \E text \in AnswerTexts :
           Controller_submitResponse(text)
               /\ UNCHANGED <<engine_vars, service_vars, interview_vars>>
    \/ \E out \in NarrativeOutputs :
           NarrativeScorerReturns(out)
               /\ UNCHANGED <<engine_vars, service_vars, interview_vars>>
    \/ Controller_skip /\ UNCHANGED <<engine_vars, service_vars, interview_vars>>

\* ------------------------------------------------------------------------
\* Backend: InterviewService.getInterviews
\* ------------------------------------------------------------------------

InterviewInit ==
    /\ interviews = <<>>
    /\ page_reply = Null

\* An interview is created; its id is its position in the listing order.
CreateInterview ==
    /\ Len(interviews) < MaxInterviews
    /\ interviews' = Append(interviews, Len(interviews) + 1)
    /\ UNCHANGED page_reply

\* findAndCount({skip, take}): the rows after the first skip, at most take
\* of them, and the number of all rows.
findAndCount(rows, skip, take) ==
    LET left == IF Len(rows) > skip THEN Len(rows) - skip ELSE 0
        n == IF left < take THEN left ELSE take IN
    <<[i \in 1..n |-> rows[skip + i]], Len(rows)>>

\* Math.ceil(total / limit) for total >= 0 and limit >= 1.
ceil(total, limit) ==
    IF total % limit = 0 THEN total \div limit ELSE (total \div limit) + 1

\* getInterviews that skips page * limit rows.
getInterviews_skips_page(rows, page, limit) ==
    LET skip == page * limit
        found == findAndCount(rows, skip, limit)
        total == found[2]
        totalPages == ceil(total, limit) IN
    [data |-> found[1], page |-> page, limit |-> limit, total |-> total,
     totalPages |-> totalPages, hasNext |-> page < totalPages,
     hasPrev |-> page > 1]

\* InterviewService.getInterviews
getInterviews(rows, page, limit) ==
    LET skip == (page - 1) * limit
        found == findAndCount(rows, skip, limit)
        total == found[2]
        totalPages == ceil(total, limit) IN
    [data |-> found[1], page |-> page, limit |-> limit, total |-> total,
     totalPages |-> totalPages, hasNext |-> page < totalPages,
     hasPrev |-> page > 1]

\* InterviewController.getInterviews behind validateQuery(
\* paginationQuerySchema): page >= 1 and limit >= 1.
GetInterviews(page, limit) ==
    /\ page_reply' = Some(getInterviews(interviews, page, limit))
    /\ UNCHANGED interviews

InterviewNext ==
    \/ CreateInterview
           /\ UNCHANGED <<engine_vars, service_vars, controller_vars>>
    \/ \E page \in 1..MaxPage, limit \in 1..MaxLimit :
           GetInterviews(page, limit)
               /\ UNCHANGED <<engine_vars, service_vars, controller_vars>>

\* The engine as constructed by the UI module: InterviewEngine(make_questions()).
EngineIdle ==
    /\ phase = "intro"
    /\ q_index = 0
    /\ questions = make_questions(Len(QuestionPool))
    /\ responses = <<>>
    /\ end_time = Null
    /\ feedback_report = Null
    /\ qa_calls = 0
    /\ phase_seq = <<"intro">>
    /\ chat_history = [c \in Clients |-> <<>>]
    /\ asked = {}

ServiceIdle == ServiceInit

ControllerIdle == ControllerInit

InterviewIdle == InterviewInit

\* The engine on its own: the backend tables stay empty.
EngineSpecInit == EngineInit /\ ServiceIdle /\ ControllerIdle /\ InterviewIdle

\* The backend on its own: the engine stays as constructed.
ServiceSpecInit == ServiceInit /\ EngineIdle /\ ControllerIdle /\ InterviewIdle

\* The orchestration core on its own.
ControllerSpecInit == ControllerInit /\ EngineIdle /\ ServiceIdle /\ InterviewIdle

\* The interview listing on its own.
InterviewSpecInit == InterviewInit /\ EngineIdle /\ ServiceIdle /\ ControllerIdle

EngineSpec == EngineSpecInit /\ [][EngineNext]_vars

SharedEngineSpec == EngineSpecInit /\ [][SharedEngineNext]_vars

ServiceSpec == ServiceSpecInit /\ [][ServiceNext]_vars

ControllerSpec == ControllerSpecInit /\ [][ControllerNext]_vars

InterviewSpec == InterviewSpecInit /\ [][InterviewNext]_vars

\* ------------------------------------------------------------------------
\* Properties of the InterviewEngine
\* ------------------------------------------------------------------------

\* The canonical phase order of the documented state machine.
PhaseOrder == <<"intro", "qa", "scenario", "reflection", "closing">>

IsPrefix(s, t) == Len(s) <= Len(t) /\ s = SubSeq(t, 1, Len(s))

\* C1: the sequence of phases observed over time is a prefix of the
\* canonical order intro, qa (ADAPTIVE_QNA), scenario, reflection, closing:
\* every phase change goes to the immediate successor, no phase is skipped
\* and none is revisited.
C1_PhaseSequenceIsPrefix ==
    IsPrefix(phase_seq, PhaseOrder)

\* C6: whenever the phase is closing, a feedback report has been generated.
C6_ClosingHasReport ==
    phase = "closing" => feedback_report # Null

Min(a, b) == IF a < b THEN a ELSE b

\* C9: within the question phase with n questions, after k calls to
\* process_response the question index is min(k, n).
C9_IndexIsMinOfCalls ==
    q_index = Min(qa_calls, Len(questions))

C9_Witness ==
    /\ Len(questions) = 2
    /\ qa_calls = 2
    /\ q_index = 2

\* C10: override law: a recorded answer that the rule-checker marks verified
\* with correctness 1 has a recorded correctness of at most 1, whatever the
\* narrative scorer returned.
C10_OverrideLaw ==
    \A i \in 1..Len(responses) :
        LET rc == RuleChecker(responses[i].question_id,
                              responses[i].answer_text) IN
        (rc.verified /\ rc.correctness = 1)
            => responses[i].scores.correctness <= 1

\* The interview a client is in: every client is served by the one
\* module-level engine.
SessionOf(c) ==
    [phase |-> phase, q_index |-> q_index, responses |-> responses,
     feedback_report |-> feedback_report]

\* C15: a submission by one client leaves the phase, question index,
\* responses and scores of every other client's interview unchanged.
C15_SubmitLeavesOtherSessions ==
    [][\A c \in Clients :
         OnSubmit(c) => \A d \in Clients \ {c} : SessionOf(d)' = SessionOf(d)]_vars

\* ------------------------------------------------------------------------
\* Properties of the SessionService
\* ------------------------------------------------------------------------

Answered(sid, qid) ==
    \E i \in 1..Len(session_responses) :
        /\ session_responses[i].session_id = sid
        /\ session_responses[i].question_id = qid

UniqueRows ==
    \A i, j \in 1..Len(session_responses) :
        (/\ session_responses[i].session_id = session_responses[j].session_id
         /\ session_responses[i].question_id = session_responses[j].question_id)
            => i = j

\* C2: there is at most one response per (session, question), and a
\* submission for an already-answered question is rejected: it fails and
\* changes neither the stored responses nor any session (total included).
C2_OneResponsePerQuestion ==
    /\ []UniqueRows
    /\ [][\A sid \in SessionIds, qid \in RequestQuestionIds,
             a \in AnswerTexts :
            (Answered(sid, qid) /\ SubmitResponse(sid, qid, a))
                => /\ reply'.status >= 400
                   /\ session_responses' = session_responses
                   /\ interview_sessions' = interview_sessions]_vars

C2_Witness ==
    /\ reply.cause = "23505"
    /\ Len(session_responses) >= 1

Active(sid) ==
    /\ sid \in DOMAIN interview_sessions
    /\ interview_sessions[sid].status = IN_PROGRESS

\* C3: a submission on a session that is not active (never started, or
\* completed or abandoned) fails with an error and stores no response.
C3_SubmitNeedsActiveSession ==
    [][\A sid \in SessionIds, qid \in RequestQuestionIds, a \in AnswerTexts :
         (~Active(sid) /\ SubmitResponse(sid, qid, a))
             => /\ reply'.status >= 400
                /\ session_responses' = session_responses]_vars

\* C4: starting a session that has already been started fails and leaves
\* the session (status, start timestamp) and the responses unchanged.
C4_SecondStartFails ==
    [][\A id \in DOMAIN interview_sessions :
         (interview_sessions[id].started_at # Null /\ StartSession(id))
             => /\ reply'.status >= 400
                /\ interview_sessions' = interview_sessions
                /\ session_responses' = session_responses]_vars

\* C5: a completed or abandoned session keeps its status whatever operation
\* follows.
C5_TerminalIsAbsorbing ==
    [][\A id \in DOMAIN interview_sessions :
         interview_sessions[id].status \in {COMPLETED, ABANDONED}
             => interview_sessions'[id].status = interview_sessions[id].status
      ]_vars

C8_TotalScoreInRange ==
    \A id \in DOMAIN interview_sessions :
        interview_sessions[id].total_score # Null
            => /\ 0 <= Val(interview_sessions[id].total_score)
               /\ Val(interview_sessions[id].total_score) <= 100

\* C14: every response of an abandoned session carries a completed
\* evaluation: no stored response of it is left without a score.
C14_AbandonedHasNoUnevaluatedResponse ==
    \A id \in DOMAIN interview_sessions :
        interview_sessions[id].status = ABANDONED
            => \A i \in 1..Len(session_responses) :
                   session_responses[i].session_id = id
                       => session_responses[i].score # Null

\* C16: completing a session again right after a successful completion, with
\* nothing changed in between, changes no stored field of the session.
C16_SecondCompletionChangesNothing ==
    [][\A id \in DOMAIN interview_sessions :
         (/\ reply = Reply("completeSession", 200, "none")
          /\ interview_sessions[id].status = COMPLETED
          /\ CompleteSession(id))
             => interview_sessions' = interview_sessions]_vars

\* ------------------------------------------------------------------------
\* Properties of the orchestration core
\* ------------------------------------------------------------------------

\* The stored records of the session (none before start()).
Records == IF session_state = Null THEN <<>> ELSE Val(session_state).records

\* The stored records of question q.
RecordsFor(q) == { i \in 1..Len(Records) : Records[i].question_id = q }

\* The latest evaluation has finished with the given outcomes of its calls.
Finished(outcomes) ==
    /\ evaluation # Null
    /\ Val(evaluation).done
    /\ Val(evaluation).outcomes = outcomes

ScoredAdaptiveAnswer ==
    /\ session_state # Null
    /\ LET new == Val(session_state').records IN
       /\ Len(new) = Len(Records) + 1
       /\ new[Len(new)].phase = "ADAPTIVE_QNA"
       /\ ~new[Len(new)].skipped

\* C18: the difficulty tier is always one of Beginner..Expert; a step that
\* stores a scored ADAPTIVE_QNA answer moves it up one tier when the average
\* of the last two correctness scores is at least 4.0 (not beyond Expert),
\* down one tier when it is at most 2.0 (not below Beginner), and leaves it
\* unchanged otherwise; no other step of a started session changes it.
C18_TierFollowsAverage ==
    /\ [](session_state # Null => Val(session_state).tier \in 1..Len(Tiers))
    /\ [][session_state # Null =>
             LET tier == Val(session_state).tier
                 next == Val(session_state').tier
                 w == Window(ScoreHistory(Val(session_state').records)) IN
             IF ~ScoredAdaptiveAnswer THEN next = tier
             ELSE IF SumSeq(w) >= 4 * Len(w)
                  THEN next = (IF Tiers[tier] = "expert" THEN tier ELSE tier + 1)
             ELSE IF SumSeq(w) <= 2 * Len(w)
                  THEN next = (IF Tiers[tier] = "beginner" THEN tier ELSE tier - 1)
             ELSE next = tier]_vars

\* Three answers with correctness 5: the tier went from Intermediate to
\* Expert in two steps and stayed there on the third.
C18_Witness ==
    /\ session_state # Null
    /\ ScoreHistory(Records) = <<5, 5, 5>>
    /\ Tiers[Val(session_state).tier] = "expert"

\* The position of the session: its phase and question index.
Position(st) == <<st.phase, st.q_index>>

\* The step appends one record tagged skipped, with the minimal score on
\* every axis, for the question that was pending, and moves past it.
ForceAdvances ==
    LET st == Val(session_state)
        new == Val(session_state').records IN
    /\ Len(new) = Len(st.records) + 1
    /\ SubSeq(new, 1, Len(st.records)) = st.records
    /\ new[Len(new)].skipped
    /\ new[Len(new)].question_id = PendingQuestion(st)
    /\ \A a \in Axes : new[Len(new)].scores[a] = AxisMin
    /\ Position(Val(session_state')) # Position(st)

\* The step asks the same question again and stores nothing.
AsksAgain ==
    /\ Val(session_state').records = Val(session_state).records
    /\ Position(Val(session_state')) = Position(Val(session_state))

C20_SkipIsBounded ==
    /\ [](session_state # Null => Val(session_state).retries \in 0..2)
    /\ [][Controller_skip =>
             LET n == Val(session_state).retries + 1 IN
             IF n <= 2
             THEN /\ Val(session_state').retries = n
                  /\ Position(Val(session_state')) = Position(Val(session_state))
             ELSE /\ Val(session_state').retries = 0
                  /\ Position(Val(session_state')) # Position(Val(session_state))]_vars

\* A question asked again twice: its counter is at the threshold.
C20_Witness ==
    /\ session_state # Null
    /\ Val(session_state).retries = SkipThreshold
    /\ HasPendingQuestion(Val(session_state))

\* ------------------------------------------------------------------------
\* Further properties of the SessionService
\* ------------------------------------------------------------------------

\* C24: a request that failed on a PostgreSQL constraint is answered with
\* the mapped status: 409 for a unique violation (23505), 404 for a
\* foreign-key violation (23503), 400 for a not-null violation (23502).
C24_ConstraintErrorIsMapped ==
    /\ reply.cause = "23505" => reply.status = 409
    /\ reply.cause = "23503" => reply.status = 404
    /\ reply.cause = "23502" => reply.status = 400

\* C25: a completed session's total_score is the sum of the scores of its
\* evaluated responses.
C25_TotalIsSumOfScores ==
    \A id \in DOMAIN interview_sessions :
        interview_sessions[id].status = COMPLETED
            => interview_sessions[id].total_score
                   = Some(TotalScore(session_responses, id))

\* C26: a completed session has been started, and was not completed before
\* it was started.
C26_CompletedWasStarted ==
    \A id \in DOMAIN interview_sessions :
        interview_sessions[id].status = COMPLETED
            => /\ interview_sessions[id].started_at # Null
               /\ Val(interview_sessions[id].started_at)
                      <= Val(interview_sessions[id].completed_at)

\* C27: startSession, completeSession and abandonSession for an id of no
\* session, and evaluateResponse with a valid score for an id of no
\* response, are answered 404 and change no session and no response.
C27_UnknownIdIsNotFound ==
    [][/\ \A id \in SessionIds \ DOMAIN interview_sessions :
            (StartSession(id) \/ CompleteSession(id) \/ AbandonSession(id))
                => /\ reply'.status = 404
                   /\ interview_sessions' = interview_sessions
                   /\ session_responses' = session_responses
       /\ \A rid \in 1..MaxResponses, score \in RequestScores,
             isCorrect \in BOOLEAN :
            (/\ rid > Len(session_responses)
             /\ ValidScore(score)
             /\ EvaluateResponse(rid, score, isCorrect))
                => /\ reply'.status = 404
                   /\ interview_sessions' = interview_sessions
                   /\ session_responses' = session_responses]_vars

\* A session and a response exist, and the last request, a completeSession,
\* was answered 404.
C27_Witness ==
    /\ reply = Reply("completeSession", 404, "none")
    /\ interview_sessions # <<>>
    /\ session_responses # <<>>

\* ------------------------------------------------------------------------
\* Properties of the InterviewService
\* ------------------------------------------------------------------------

\* C29: a listing skips exactly (page - 1) * limit interviews and returns
\* at most limit of those that follow; totalPages is the least number of
\* pages of limit items that hold total items; hasNext is true exactly when
\* page * limit < total, hasPrev exactly when page > 1.
C29_PaginationIsExact ==
    page_reply # Null =>
        LET r == Val(page_reply)
            skipped == (r.page - 1) * r.limit IN
        /\ \A i \in 1..Len(r.data) : r.data[i] = skipped + i
        /\ Len(r.data) <= r.limit
        /\ Len(r.data) < r.limit => skipped + Len(r.data) >= r.total
        /\ r.totalPages * r.limit >= r.total
        /\ r.totalPages > 0 => (r.totalPages - 1) * r.limit < r.total
        /\ r.totalPages >= 0
        /\ r.hasNext <=> (r.page * r.limit < r.total)
        /\ r.hasPrev <=> (r.page > 1)

\* The second page of four interviews, three to a page: one interview, no
\* next page, a previous page.
C29_Witness ==
    /\ page_reply # Null
    /\ Val(page_reply).page = 2
    /\ Val(page_reply).limit = 3
    /\ Val(page_reply).data = <<4>>
    /\ Val(page_reply).totalPages = 2
    /\ ~Val(page_reply).hasNext
    /\ Val(page_reply).hasPrev

\* ------------------------------------------------------------------------
\* Further properties of the InterviewEngine
\* ------------------------------------------------------------------------

\* C28: the engine holds as many records as the question index says, the
\* i-th record is the record of the i-th question, and a step appends a
\* record exactly when it increments the index.
C28_RecordsMatchIndex ==
    /\ [](/\ Len(responses) = q_index
          /\ q_index <= Len(questions)
          /\ \A i \in 1..Len(responses) :
                 responses[i].question_id = questions[i])
    /\ [][(q_index' # q_index \/ responses' # responses)
             => /\ q_index' = q_index + 1
                /\ Len(responses') = Len(responses) + 1
                /\ SubSeq(responses', 1, Len(responses)) = responses]_vars

\* Both questions answered: two records, the second one of question q2.
C28_Witness ==
    /\ q_index = 2
    /\ Len(responses) = 2
    /\ responses[2].question_id = "q2"
    /\ phase = "closing"

\* C22: every stored record is the record of a question that ask_next had
\* returned: no message is scored against a question that was not asked.
C22_ScoredQuestionWasAsked ==
    \A i \in 1..Len(responses) : i \in asked

\* The scores of the evaluated responses of session id.
ScoredResponses(id) ==
    { i \in 1..Len(session_responses) :
        /\ session_responses[i].session_id = id
        /\ session_responses[i].score # Null }

\* C23: a completion of a session whose evaluated responses all have the
\* maximum score, however many of them there are, stores the overall score
\* 100.
C23_AllMaximumGivesHundred ==
    [][\A id \in DOMAIN interview_sessions :
         (/\ ScoredResponses(id) # {}
          /\ \A i \in ScoredResponses(id) :
                 session_responses[i].score = Some(MaxScore)
          /\ CompleteSession(id))
             => interview_sessions'[id].total_score = Some(100)]_vars

\* ------------------------------------------------------------------------
\* Further properties of the orchestration core
\* ------------------------------------------------------------------------

\* target is the phase that directly follows ph in the canonical order.
IsSuccessor(ph, target) == PhaseIndex(target) = PhaseIndex(ph) + 1

\* C21: forceTransition(p) moves the session to p when p is the phase that
\* directly follows the current one; for every other p (the same phase, an
\* earlier one, one more than one step ahead) it fails with
\* InvalidTransition and leaves the session as it was.  Stated of the
\* operation in every reachable session, and of every step: no step moves
\* the session to a phase other than the one that directly follows.
C21_ForceTransitionOnlyToSuccessor ==
    /\ [](session_state # Null =>
            LET st == Val(session_state) IN
            \A target \in Phases :
                LET r == forceTransition(st, target) IN
                IF IsSuccessor(st.phase, target)
                THEN /\ r.error = "none"
                     /\ r.session.phase = target
                ELSE /\ r.error = "InvalidTransition"
                     /\ r.session = st)
    /\ [][(session_state # Null /\ session_state' # Null
             /\ Val(session_state').phase # Val(session_state).phase) =>
               IsSuccessor(Val(session_state).phase,
                           Val(session_state').phase)]_vars

\* The session was moved from INTRO to ADAPTIVE_QNA without an answer.
C21_Witness ==
    /\ session_state # Null
    /\ Val(session_state).phase = "ADAPTIVE_QNA"
    /\ Records = <<>>

====
